---- MODULE Spec2Model ----
(***************************************************************************)
(* Face login of testify_backend: LivenessVerificationService (the cache   *)
(* keys liveness_lockout_/attempts_/recent_/last_time_), the audit table   *)
(* FaceAuthenticationLog written by FaceAuthenticationService, and the     *)
(* view FaceAuthLoginView.post that chains them.                           *)
(*                                                                         *)
(* Time is in whole seconds.  Scores are in hundredths (0.80 is 80),       *)
(* entropy and noise in tenths (4.0 is 40).                                *)
(***************************************************************************)
EXTENDS Integers, Sequences, FiniteSets, Bags, TLC

(* ------------------------------------------------------------------ *)
(* Program constants                                                   *)
(* ------------------------------------------------------------------ *)
MIN_IMAGE_SIZE == 200
MAX_IMAGE_SIZE == 4000
MIN_IMAGE_ENTROPY == 40
BORDER_STD_FLOOR == 5
NOISE_FLOOR == 5
MIN_TIME_BETWEEN_ATTEMPTS == 2
CACHE_TIMEOUT == 300
MAX_FAILED_ATTEMPTS == 5
LOCKOUT_DURATION == 900
RECENT_KEEP == 10
MIN_MATCH_THRESHOLD == 65
HIGH_MATCH_THRESHOLD == 80
SUSPICIOUS_MAX_FAILURES == 5
MIN_CONFIDENCE == 50
GOVERNMENT_THRESHOLD == 65
DEEP_BLEND_BELOW == 70
CHALLENGE_MAX_AGE == 300

(* ------------------------------------------------------------------ *)
(* Bounds                                                              *)
(* ------------------------------------------------------------------ *)
\* The clock reading of the initial state (any reading above the timing floor).
StartTime == 2
\* Seconds of clock the main specification lets pass.
MaxTime == 2
\* The run of failed logins: seconds of clock and payloads (five sound captures
\* after the defective ones, one login every two seconds).
StreakTime == 8
StreakPayloads == 10
\* The replay cache filling up: seconds of clock and payloads (twelve sound
\* captures, two more than the cache keeps).
ReplayTime == 22
ReplayPayloads == 17
\* The run from a cache already holding a counter or a lockout: seconds of
\* clock, enough for the lockout to run out.
WarmTime == 902
\* Capture payloads a client may submit in the main specification; 1..NumBad
\* are the defective ones.
NumPayloads == 7
\* The face check under every library set-up and fault: seconds of clock and
\* payloads (two sound captures).
FaceTime == 2
FacePayloads == 7
\* Logins with every kind of client hints: seconds of clock and payloads.
HintTime == 4
HintPayloads == 8
\* Concurrent calls: seconds of clock and payloads (two sound captures).
RaceTime == 2
RacePayloads == 7
PairTime == 2
PairPayloads == 7
MaxBody == 5
MaxChallenges == 2
AuthnTime == 301

(* ------------------------------------------------------------------ *)
(* Reasons and statuses, as the code spells them                       *)
(* ------------------------------------------------------------------ *)
R_LOCKOUT == "Juda ko'p urinish. 15 daqiqa kutib turing."
R_FORMAT == "Noto'g'ri rasm formati"
R_SMALL == "Rasm juda kichik"
R_LARGE == "Rasm juda katta"
R_RATIO == "Noto'g'ri rasm nisbati"
R_ENTROPY == "Rasm sifati past yoki sun'iy"
R_BORDER == "Rasm sun'iy ko'rinadi"
R_NOISE == "Rasm kameradan olinmagan"
R_REPLAY == "Bu rasm avval ishlatilgan"
R_TOO_FAST == "Juda tez urinish"
R_NO_MOVE == "Tirik harakatlar aniqlanmadi"
R_CONFIDENCE == "Tiriklik ishonchi past"
R_FACE_QUALITY == "Yuz sifati past"
R_MULTI == "Bir nechta yuz aniqlandi"
R_OK == "Tiriklik tasdiqlandi"
R_ERROR == "Tiriklik tekshiruvida xatolik"

AuthStatus == {"SUCCESS", "FAILED", "NO_FACE", "MULTIPLE_FACES", "LOW_QUALITY", "TIMEOUT"}

(* ------------------------------------------------------------------ *)
(* Identities                                                          *)
(* ------------------------------------------------------------------ *)
\* User rows of the database.
Users == {"alice", "bob"}
\* Identifiers a request may carry: a username, or a PINFL linked to a user.
Idents == {"alice", "bob", "pinfl_alice", "nobody"}

\* User.objects.get(username=...) / UserPassportLink...get(passport_data__pinfl=...)
FindUser(ident) ==
    CASE ident = "alice" -> {"alice"}
      [] ident = "pinfl_alice" -> {"alice"}
      [] ident = "bob" -> {"bob"}
      [] OTHER -> {}

(* ------------------------------------------------------------------ *)
(* Capture payloads and what they decode to                            *)
(* ------------------------------------------------------------------ *)
Photo == [decodes |-> TRUE, w |-> 640, h |-> 480, entropy |-> 72, border |-> 31, noise |-> 140]

BadImages ==
    << [Photo EXCEPT !.decodes = FALSE],
       [Photo EXCEPT !.w = 1, !.h = 1, !.entropy = 0, !.border = 0, !.noise = 0],
       [Photo EXCEPT !.entropy = 12],
       [Photo EXCEPT !.border = 0],
       [Photo EXCEPT !.noise = 2] >>

NumBad == Len(BadImages)

\* LivenessVerificationService._decode_image: None when the payload does not decode.
DecodeImage(p) == IF p <= NumBad THEN BadImages[p] ELSE Photo

\* hashlib.sha256(image_data.encode()).hexdigest(): one digest per payload.
Sha256(p) == <<"sha256", p>>


(* ------------------------------------------------------------------ *)
(* State                                                               *)
(* ------------------------------------------------------------------ *)
VARIABLES
    now,       \* time.time()
    cache,     \* django.core.cache: the four liveness_* key families, per identifier
    photo,     \* the stored reference photo of each user
    auditLog,  \* the FaceAuthenticationLog table: a bag of rows
    sent,      \* the highest payload number the replay check has recorded so far
    streak,    \* per identifier: FAILED/NO_FACE outcomes since the last SUCCESS
               \* or administrative reset
    calls,     \* the verify_liveness calls in progress on the server's workers,
               \* each at its place in _check_uniqueness
    last       \* the request just handled and its response (NoRequest after any
               \* other step); "again": the request before it, in the same second,
               \* carried the same identifier and payload; "counted": the
               \* failure counter as the request came in; "stored": the audit
               \* insert of the face check went through; "cap", "store": what
               \* the face check met (see FaceEnv)

VARIABLES
    codec,     \* one payload handed to the two image decoders, and what
               \* base64_to_image and _decode_image made of it
    webauthn   \* the WebAuthnChallenge and WebAuthnCredential tables, and the
               \* register/login finish requests in progress on the workers

vars == <<now, cache, photo, auditLog, sent, streak, calls, last, codec, webauthn>>

\* A key that is not set (or was deleted): it has expired at every clock reading.
NoFlag == [val |-> FALSE, exp |-> 0]
NoCount == [val |-> 0, exp |-> 0]
NoList == [val |-> <<>>, exp |-> 0]
NoTime == [val |-> 0, exp |-> 0]

EmptyCache ==
    [lockout |-> [i \in Idents |-> NoFlag],
     attempts |-> [i \in Idents |-> NoCount],
     recent |-> [i \in Idents |-> NoList],
     last_time |-> [i \in Idents |-> NoTime]]

\* cache.get(key, default): an entry is gone once its timeout has run out.
CacheGet(entry, default, t) == IF t < entry.exp THEN entry.val ELSE default

\* cache.set(key, value, timeout)
CacheSet(value, timeout, t) == [val |-> value, exp |-> t + timeout]

(* ------------------------------------------------------------------ *)
(* LivenessVerificationService                                         *)
(* ------------------------------------------------------------------ *)
\* _check_rate_limit without the test of the lockout key.
CheckRateLimitNoLockout(c, user_id, t) ==
    IF CacheGet(c.attempts[user_id], 0, t) >= MAX_FAILED_ATTEMPTS
    THEN [ok |-> FALSE,
          cache |-> [c EXCEPT !.lockout[user_id] = CacheSet(TRUE, LOCKOUT_DURATION, t),
                              !.attempts[user_id] = NoCount]]
    ELSE [ok |-> TRUE, cache |-> c]

\* _check_rate_limit without cache.delete(attempts_key).
CheckRateLimitKeepsCounter(c, user_id, t) ==
    IF CacheGet(c.lockout[user_id], FALSE, t)
    THEN [ok |-> FALSE, cache |-> c]
    ELSE IF CacheGet(c.attempts[user_id], 0, t) >= MAX_FAILED_ATTEMPTS
         THEN [ok |-> FALSE,
               cache |-> [c EXCEPT !.lockout[user_id] = CacheSet(TRUE, LOCKOUT_DURATION, t)]]
         ELSE [ok |-> TRUE, cache |-> c]

\* _check_rate_limit: FALSE while locked out; a counter at the ceiling sets the
\* lockout and deletes the counter.
CheckRateLimit(c, user_id, t) ==
    IF CacheGet(c.lockout[user_id], FALSE, t)
    THEN [ok |-> FALSE, cache |-> c]
    ELSE IF CacheGet(c.attempts[user_id], 0, t) >= MAX_FAILED_ATTEMPTS
         THEN [ok |-> FALSE,
               cache |-> [c EXCEPT !.lockout[user_id] = CacheSet(TRUE, LOCKOUT_DURATION, t),
                                   !.attempts[user_id] = NoCount]]
         ELSE [ok |-> TRUE, cache |-> c]

\* _validate_image_quality: size, aspect ratio (0.5 <= w/h <= 2.0), entropy.
ValidateImageQuality(image) ==
    IF image.w < MIN_IMAGE_SIZE \/ image.h < MIN_IMAGE_SIZE THEN [ok |-> FALSE, reason |-> R_SMALL]
    ELSE IF image.w > MAX_IMAGE_SIZE \/ image.h > MAX_IMAGE_SIZE THEN [ok |-> FALSE, reason |-> R_LARGE]
    ELSE IF 2 * image.w < image.h \/ image.w > 2 * image.h THEN [ok |-> FALSE, reason |-> R_RATIO]
    ELSE IF image.entropy < MIN_IMAGE_ENTROPY THEN [ok |-> FALSE, reason |-> R_ENTROPY]
    ELSE [ok |-> TRUE, reason |-> "OK"]

\* _check_image_genuineness: uniform borders, then the noise estimate.
CheckImageGenuineness(image) ==
    IF image.border < BORDER_STD_FLOOR THEN [ok |-> FALSE, reason |-> R_BORDER]
    ELSE IF image.noise < NOISE_FLOOR THEN [ok |-> FALSE, reason |-> R_NOISE]
    ELSE [ok |-> TRUE, reason |-> "OK"]

\* recent_hashes[:10], the slice taken from the wrong end.
KeepFirst(s, n) == IF Len(s) <= n THEN s ELSE SubSeq(s, 1, n)

\* recent_hashes[-10:]
KeepLast(s, n) == IF Len(s) <= n THEN s ELSE SubSeq(s, Len(s) - n + 1, Len(s))

InSeq(x, s) == \E k \in 1..Len(s) : s[k] = x

\* _check_uniqueness with the timing floor tested before the replay check.
CheckUniquenessTimingFirst(c, image_data, user_id, t) ==
    LET image_hash == Sha256(image_data)
        recent_hashes == CacheGet(c.recent[user_id], <<>>, t)
        last_time == CacheGet(c.last_time[user_id], 0, t)
    IN  IF t - last_time < MIN_TIME_BETWEEN_ATTEMPTS
        THEN [ok |-> FALSE, reason |-> R_TOO_FAST, cache |-> c]
        ELSE IF InSeq(image_hash, recent_hashes)
        THEN [ok |-> FALSE, reason |-> R_REPLAY, cache |-> c]
        ELSE [ok |-> TRUE, reason |-> "OK",
              cache |-> [c EXCEPT
                  !.recent[user_id] =
                      CacheSet(KeepLast(Append(recent_hashes, image_hash), RECENT_KEEP),
                               CACHE_TIMEOUT, t),
                  !.last_time[user_id] = CacheSet(t, CACHE_TIMEOUT, t)]]

\* _check_uniqueness with a floor one second short.
CheckUniquenessShortFloor(c, image_data, user_id, t) ==
    LET image_hash == Sha256(image_data)
        recent_hashes == CacheGet(c.recent[user_id], <<>>, t)
        last_time == CacheGet(c.last_time[user_id], 0, t)
    IN  IF InSeq(image_hash, recent_hashes)
        THEN [ok |-> FALSE, reason |-> R_REPLAY, cache |-> c]
        ELSE IF t - last_time < MIN_TIME_BETWEEN_ATTEMPTS - 1
        THEN [ok |-> FALSE, reason |-> R_TOO_FAST, cache |-> c]
        ELSE [ok |-> TRUE, reason |-> "OK",
              cache |-> [c EXCEPT
                  !.recent[user_id] =
                      CacheSet(KeepLast(Append(recent_hashes, image_hash), RECENT_KEEP),
                               CACHE_TIMEOUT, t),
                  !.last_time[user_id] = CacheSet(t, CACHE_TIMEOUT, t)]]

\* _check_uniqueness without the write of the last-attempt time.
CheckUniquenessNoTime(c, image_data, user_id, t) ==
    LET image_hash == Sha256(image_data)
        recent_hashes == CacheGet(c.recent[user_id], <<>>, t)
        last_time == CacheGet(c.last_time[user_id], 0, t)
    IN  IF InSeq(image_hash, recent_hashes)
        THEN [ok |-> FALSE, reason |-> R_REPLAY, cache |-> c]
        ELSE IF t - last_time < MIN_TIME_BETWEEN_ATTEMPTS
        THEN [ok |-> FALSE, reason |-> R_TOO_FAST, cache |-> c]
        ELSE [ok |-> TRUE, reason |-> "OK",
              cache |-> [c EXCEPT
                  !.recent[user_id] =
                      CacheSet(KeepLast(Append(recent_hashes, image_hash), RECENT_KEEP),
                               CACHE_TIMEOUT, t)]]

\* _check_uniqueness: the replay check, then the timing floor, then both keys
\* are written.
CheckUniqueness(c, image_data, user_id, t) ==
    LET image_hash == Sha256(image_data)
        recent_hashes == CacheGet(c.recent[user_id], <<>>, t)
        last_time == CacheGet(c.last_time[user_id], 0, t)
    IN  IF InSeq(image_hash, recent_hashes)
        THEN [ok |-> FALSE, reason |-> R_REPLAY, cache |-> c]
        ELSE IF t - last_time < MIN_TIME_BETWEEN_ATTEMPTS
        THEN [ok |-> FALSE, reason |-> R_TOO_FAST, cache |-> c]
        ELSE [ok |-> TRUE, reason |-> "OK",
              cache |-> [c EXCEPT
                  !.recent[user_id] =
                      CacheSet(KeepLast(Append(recent_hashes, image_hash), RECENT_KEEP),
                               CACHE_TIMEOUT, t),
                  !.last_time[user_id] = CacheSet(t, CACHE_TIMEOUT, t)]]

\* Client liveness hints: none sent, or a dict with "checks" and "confidence"
\* (confidence in hundredths), or an empty dict, or a value that is no dict at
\* all.
NoHints == [kind |-> "none", blinkDetected |-> FALSE, headMovement |-> FALSE,
            expressionChange |-> FALSE, faceQuality |-> FALSE, multipleFaces |-> FALSE,
            confidence |-> 0]
GoodHints == [NoHints EXCEPT !.kind = "dict", !.blinkDetected = TRUE, !.faceQuality = TRUE,
                             !.confidence = 90]
HintSet ==
    { NoHints,
      GoodHints,
      [NoHints EXCEPT !.kind = "other"],
      [GoodHints EXCEPT !.blinkDetected = FALSE],
      [GoodHints EXCEPT !.blinkDetected = FALSE, !.headMovement = TRUE],
      [GoodHints EXCEPT !.blinkDetected = FALSE, !.expressionChange = TRUE],
      [GoodHints EXCEPT !.confidence = 49],
      [GoodHints EXCEPT !.confidence = 50],
      [GoodHints EXCEPT !.faceQuality = FALSE],
      [GoodHints EXCEPT !.multipleFaces = TRUE],
      [NoHints EXCEPT !.kind = "empty"] }

SomeHints ==
    {NoHints, GoodHints, [NoHints EXCEPT !.kind = "other"],
     [GoodHints EXCEPT !.multipleFaces = TRUE]}

\* _verify_frontend_liveness without the multiple-faces test.
VerifyFrontendLivenessNoFaces(liveness_data) ==
    IF ~(liveness_data.blinkDetected \/ liveness_data.headMovement
         \/ liveness_data.expressionChange)
    THEN [ok |-> FALSE, reason |-> R_NO_MOVE]
    ELSE IF liveness_data.confidence < MIN_CONFIDENCE THEN [ok |-> FALSE, reason |-> R_CONFIDENCE]
    ELSE IF ~liveness_data.faceQuality THEN [ok |-> FALSE, reason |-> R_FACE_QUALITY]
    ELSE [ok |-> TRUE, reason |-> "OK"]

\* _verify_frontend_liveness
VerifyFrontendLiveness(liveness_data) ==
    IF ~(liveness_data.blinkDetected \/ liveness_data.headMovement
         \/ liveness_data.expressionChange)
    THEN [ok |-> FALSE, reason |-> R_NO_MOVE]
    ELSE IF liveness_data.confidence < MIN_CONFIDENCE THEN [ok |-> FALSE, reason |-> R_CONFIDENCE]
    ELSE IF ~liveness_data.faceQuality THEN [ok |-> FALSE, reason |-> R_FACE_QUALITY]
    ELSE IF liveness_data.multipleFaces THEN [ok |-> FALSE, reason |-> R_MULTI]
    ELSE [ok |-> TRUE, reason |-> "OK"]

\* _store_attempt that leaves the counter alone on success.
StoreAttemptKeep(c, user_id, success, t) ==
    IF ~success
    THEN [c EXCEPT !.attempts[user_id] =
              CacheSet(CacheGet(c.attempts[user_id], 0, t) + 1, CACHE_TIMEOUT, t)]
    ELSE c

\* _store_attempt: a failure adds one to the counter, a success deletes it.
StoreAttempt(c, user_id, success, t) ==
    IF ~success
    THEN [c EXCEPT !.attempts[user_id] =
              CacheSet(CacheGet(c.attempts[user_id], 0, t) + 1, CACHE_TIMEOUT, t)]
    ELSE [c EXCEPT !.attempts[user_id] = NoCount]

\* reset_user_lockout deleting the replay keys of the identity as well.
ResetLockoutClearsAll(c, user_id) ==
    [c EXCEPT !.lockout[user_id] = NoFlag, !.attempts[user_id] = NoCount,
              !.recent[user_id] = NoList, !.last_time[user_id] = NoTime]

\* reset_user_lockout
ResetLockout(c, user_id) ==
    [c EXCEPT !.lockout[user_id] = NoFlag, !.attempts[user_id] = NoCount]

\* verify_liveness with the client hints looked at before the image checks.
VerifyLivenessHintsFirst(c, image_data, user_id, liveness_data, t, up) ==
    LET rate == CheckRateLimit(c, user_id, t)
        image == DecodeImage(image_data)
        quality == ValidateImageQuality(image)
        genuine == CheckImageGenuineness(image)
        unique == CheckUniqueness(rate.cache, image_data, user_id, t)
        front == VerifyFrontendLiveness(liveness_data)
        Out(live, reason, stage, c2) ==
            [live |-> live, reason |-> reason, stage |-> stage, cache |-> c2]
    IN  IF ~up THEN Out(FALSE, R_ERROR, "exception", c)
        ELSE IF ~rate.ok THEN Out(FALSE, R_LOCKOUT, "rate_limit", rate.cache)
        ELSE IF liveness_data.kind = "other"
             THEN Out(FALSE, R_ERROR, "exception", rate.cache)
        ELSE IF liveness_data.kind = "dict" /\ ~front.ok
             THEN Out(FALSE, front.reason, "frontend", rate.cache)
        ELSE IF ~image.decodes THEN Out(FALSE, R_FORMAT, "decode", rate.cache)
        ELSE IF ~quality.ok THEN Out(FALSE, quality.reason, "quality", rate.cache)
        ELSE IF ~genuine.ok THEN Out(FALSE, genuine.reason, "genuineness", rate.cache)
        ELSE IF ~unique.ok THEN Out(FALSE, unique.reason, "uniqueness", rate.cache)
        ELSE Out(TRUE, R_OK, "passed", StoreAttempt(unique.cache, user_id, TRUE, t))

\* verify_liveness: the checks in the order of the code, the first failing one
\* returns.  "stage" names the check that ended the call.  up: the cache
\* answers; when it does not, the first cache.get raises and the except clause
\* returns the error reason.  Hints that are falsy (None, an empty dict) are
\* not looked at; hints that are no dict make _verify_frontend_liveness raise.
VerifyLiveness(c, image_data, user_id, liveness_data, t, up) ==
    LET rate == CheckRateLimit(c, user_id, t)
        image == DecodeImage(image_data)
        quality == ValidateImageQuality(image)
        genuine == CheckImageGenuineness(image)
        unique == CheckUniqueness(rate.cache, image_data, user_id, t)
        front == VerifyFrontendLiveness(liveness_data)
        Out(live, reason, stage, c2) ==
            [live |-> live, reason |-> reason, stage |-> stage, cache |-> c2]
    IN  IF ~up THEN Out(FALSE, R_ERROR, "exception", c)
        ELSE IF ~rate.ok THEN Out(FALSE, R_LOCKOUT, "rate_limit", rate.cache)
        ELSE IF ~image.decodes THEN Out(FALSE, R_FORMAT, "decode", rate.cache)
        ELSE IF ~quality.ok THEN Out(FALSE, quality.reason, "quality", rate.cache)
        ELSE IF ~genuine.ok THEN Out(FALSE, genuine.reason, "genuineness", rate.cache)
        ELSE IF ~unique.ok THEN Out(FALSE, unique.reason, "uniqueness", rate.cache)
        ELSE IF liveness_data.kind = "other"
             THEN Out(FALSE, R_ERROR, "exception", unique.cache)
        ELSE IF liveness_data.kind = "dict" /\ ~front.ok
             THEN Out(FALSE, front.reason, "frontend", unique.cache)
        ELSE Out(TRUE, R_OK, "passed", StoreAttempt(unique.cache, user_id, TRUE, t))


(* ------------------------------------------------------------------ *)
(* FaceAuthenticationService                                           *)
(* ------------------------------------------------------------------ *)
\* What is stored as a user's reference photo: nothing, a string that does not
\* decode, an image with no face in it, an image with a face.
RefKinds == {"none", "corrupt", "noface", "face"}

\* What one call of the face check meets:
\*   store   the profile and passport queries answer (FALSE: they raise)
\*   cap     what base64_to_image and extract_face_encoding make of the capture:
\*           "corrupt" does not decode, "noface" holds no face, "crash" makes
\*           the locator raise (extract_face_encoding logs it and returns None)
\*   lib     the libraries installed: "fr" face_recognition (encodings are
\*           vectors), "cv" OpenCV with scikit-image, "cvonly" OpenCV alone
\*           (encodings are pixel blocks)
\*   deep    DeepFace: "absent", "raises" (DeepFace.verify fails), "ok"
\*   sim     max(0, 1 - distance/2) of DeepFace.verify
\*   dist    face_recognition.face_distance
\*   ssim, orb, hist  the three classical measures; classic = "raises" when
\*           one of them fails
\*   db      the audit insert goes through
\* All measures are in hundredths.
FaceEnv(cap, score, db) ==
    [store |-> TRUE, cap |-> cap, lib |-> "fr", deep |-> "absent", sim |-> 0,
     dist |-> 100 - score, classic |-> "ok", ssim |-> 0, orb |-> 0, hist |-> 0,
     db |-> db]

\* Calls on a server with face_recognition installed, by the score they end in.
FaceEnvs(scores) ==
    {FaceEnv(cap, 0, db) : cap \in {"corrupt", "noface"}, db \in BOOLEAN}
      \cup {FaceEnv("face", sc, db) : sc \in scores, db \in BOOLEAN}

\* compare_faces that answers 1.0 when no method applies.
CompareFacesDefaultMatch(env) ==
    LET Out(score, method, deep_failed, fallback) ==
            [score |-> score, method |-> method, deep_failed |-> deep_failed,
             fallback |-> fallback]
        blocks == env.lib # "fr"
        tried == env.deep # "absent" /\ blocks
    IN  IF tried /\ env.deep = "ok"
        THEN IF env.sim < DEEP_BLEND_BELOW /\ env.lib = "cv"
             THEN IF env.classic = "raises"
                  THEN Out(0, "error", TRUE, TRUE)
                  ELSE Out((env.sim * 60 + env.ssim * 25 + env.hist * 15) \div 100,
                           "blend", FALSE, FALSE)
             ELSE Out(env.sim, "deep", FALSE, FALSE)
        ELSE IF env.lib = "fr"
        THEN IF env.classic = "raises" THEN Out(0, "error", tried, tried)
             ELSE Out(IF env.dist > 100 THEN 0 ELSE 100 - env.dist, "vector", tried, tried)
        ELSE IF env.lib = "cv"
        THEN IF env.classic = "raises" THEN Out(0, "error", tried, tried)
             ELSE Out((env.ssim * 50 + env.orb * 20 + env.hist * 30) \div 100,
                      "classical", tried, tried)
        ELSE Out(100, "none", tried, FALSE)

\* compare_faces: DeepFace on pixel blocks when it is installed (blended with
\* SSIM and histograms below 0.7); when it is absent, skipped or has raised,
\* face_recognition's distance, else the classical composite, else 0.0.  An
\* exception outside the DeepFace block gives 0.0.  "method": the branch whose
\* return statement ended the call; "deep_failed": the DeepFace block raised;
\* "fallback": another method was run after that.  No branch clamps its
\* weighted sum.
CompareFaces(env) ==
    LET Out(score, method, deep_failed, fallback) ==
            [score |-> score, method |-> method, deep_failed |-> deep_failed,
             fallback |-> fallback]
        blocks == env.lib # "fr"
        tried == env.deep # "absent" /\ blocks
    IN  IF tried /\ env.deep = "ok"
        THEN IF env.sim < DEEP_BLEND_BELOW /\ env.lib = "cv"
             THEN IF env.classic = "raises"
                  THEN Out(0, "error", TRUE, TRUE)
                  ELSE Out((env.sim * 60 + env.ssim * 25 + env.hist * 15) \div 100,
                           "blend", FALSE, FALSE)
             ELSE Out(env.sim, "deep", FALSE, FALSE)
        ELSE IF env.lib = "fr"
        THEN IF env.classic = "raises" THEN Out(0, "error", tried, tried)
             ELSE Out(IF env.dist > 100 THEN 0 ELSE 100 - env.dist, "vector", tried, tried)
        ELSE IF env.lib = "cv"
        THEN IF env.classic = "raises" THEN Out(0, "error", tried, tried)
             ELSE Out((env.ssim * 50 + env.orb * 20 + env.hist * 30) \div 100,
                      "classical", tried, tried)
        ELSE Out(0, "none", tried, FALSE)

\* The threshold chain with exclusive bounds.
ClassifyStrict(match_score) ==
    IF match_score > HIGH_MATCH_THRESHOLD THEN "SUCCESS"
    ELSE IF match_score > MIN_MATCH_THRESHOLD THEN "LOW_QUALITY"
    ELSE "FAILED"

\* The status of a compared pair (verify_user_face, the threshold chain).
Classify(match_score) ==
    IF match_score >= HIGH_MATCH_THRESHOLD THEN "SUCCESS"
    ELSE IF match_score >= MIN_MATCH_THRESHOLD THEN "LOW_QUALITY"
    ELSE "FAILED"

\* _log_authentication that skips the rows without a score.
LogAuthenticationScoredOnly(log, user, status, match_score, db) ==
    [raised |-> FALSE,
     log |-> IF db /\ match_score # {}
             THEN log (+) SetToBag({[user |-> user, status |-> status,
                                     match_score |-> match_score]})
             ELSE log]

\* _log_authentication without its try/except: a failed insert propagates.
LogAuthenticationUnguarded(log, user, status, match_score, db) ==
    [raised |-> ~db,
     log |-> IF db
             THEN log (+) SetToBag({[user |-> user, status |-> status,
                                     match_score |-> match_score]})
             ELSE log]

\* _log_authentication: one row, unless the insert raises (the error is logged
\* and swallowed, nothing propagates).  match_score is {} for NULL.
LogAuthentication(log, user, status, match_score, db) ==
    [raised |-> FALSE,
     log |-> IF db
             THEN log (+) SetToBag({[user |-> user, status |-> status,
                                     match_score |-> match_score]})
             ELSE log]

\* verify_user_face that scores a capture in which no face was found.
VerifyUserFaceScoreAnyway(log, user, ref, env) ==
    LET Out(success, status, score, logged, encoded, cmp, message) ==
            LET la == LogAuthentication(log, user, status, logged, env.db)
            IN  [success |-> success, status |-> status, match_score |-> score,
                 message |-> message, encoded |-> encoded,
                 compared |-> cmp # {},
                 method |-> IF cmp = {} THEN "" ELSE (CHOOSE c \in cmp : TRUE).method,
                 deep_failed |-> \E c \in cmp : c.deep_failed,
                 fallback |-> \E c \in cmp : c.fallback,
                 raised |-> la.raised, log |-> la.log]
        scored == CompareFaces(env)
    IN  IF ~env.store THEN Out(FALSE, "FAILED", 0, {}, 0, {}, "Xatolik yuz berdi")
        ELSE IF ref = "none"
             THEN Out(FALSE, "FAILED", 0, {}, 0, {}, "Passport fotosi topilmadi")
        ELSE IF ref = "corrupt" THEN Out(FALSE, "FAILED", 0, {}, 0, {}, "Xatolik yuz berdi")
        ELSE IF ref = "noface"
             THEN Out(FALSE, "NO_FACE", 0, {}, 1, {}, "Passport rasmida yuz topilmadi")
        ELSE IF env.cap = "corrupt"
             THEN Out(FALSE, "FAILED", 0, {}, 1, {}, "Xatolik yuz berdi")
        ELSE Out(scored.score >= HIGH_MATCH_THRESHOLD, Classify(scored.score), scored.score,
                 {scored.score}, 2, {scored},
                 CASE Classify(scored.score) = "SUCCESS" -> "Yuz muvaffaqiyatli tasdiqlandi"
                   [] Classify(scored.score) = "LOW_QUALITY" -> "Yuz qisman mos keldi"
                   [] OTHER -> "Yuz mos kelmadi")

\* verify_user_face that sets success from the lower threshold.
VerifyUserFaceLowPasses(log, user, ref, env) ==
    LET Out(success, status, score, logged, encoded, cmp, message) ==
            LET la == LogAuthentication(log, user, status, logged, env.db)
            IN  [success |-> success, status |-> status, match_score |-> score,
                 message |-> message, encoded |-> encoded,
                 compared |-> cmp # {},
                 method |-> IF cmp = {} THEN "" ELSE (CHOOSE c \in cmp : TRUE).method,
                 deep_failed |-> \E c \in cmp : c.deep_failed,
                 fallback |-> \E c \in cmp : c.fallback,
                 raised |-> la.raised, log |-> la.log]
        scored == CompareFaces(env)
    IN  IF ~env.store THEN Out(FALSE, "FAILED", 0, {}, 0, {}, "Xatolik yuz berdi")
        ELSE IF ref = "none"
             THEN Out(FALSE, "FAILED", 0, {}, 0, {}, "Passport fotosi topilmadi")
        ELSE IF ref = "corrupt" THEN Out(FALSE, "FAILED", 0, {}, 0, {}, "Xatolik yuz berdi")
        ELSE IF ref = "noface"
             THEN Out(FALSE, "NO_FACE", 0, {}, 1, {}, "Passport rasmida yuz topilmadi")
        ELSE IF env.cap = "corrupt"
             THEN Out(FALSE, "FAILED", 0, {}, 1, {}, "Xatolik yuz berdi")
        ELSE IF env.cap \in {"noface", "crash"}
             THEN Out(FALSE, "NO_FACE", 0, {0}, 2, {}, "Kiritilgan rasmda yuz topilmadi")
        ELSE Out(scored.score >= MIN_MATCH_THRESHOLD, Classify(scored.score), scored.score,
                 {scored.score}, 2, {scored},
                 CASE Classify(scored.score) = "SUCCESS" -> "Yuz muvaffaqiyatli tasdiqlandi"
                   [] Classify(scored.score) = "LOW_QUALITY" -> "Yuz qisman mos keldi"
                   [] OTHER -> "Yuz mos kelmadi")

\* verify_user_face.  Everything runs inside one try/except whose handler
\* returns FAILED after an audit write, and the audit write swallows its own
\* errors: "raised" (an exception reached the caller) is the audit write's.
\* result['success'] starts False and is set only in the branch of the high
\* threshold.  "encoded" counts the extract_face_encoding calls made,
\* "compared" tells whether compare_faces ran and "method" how it ended.
VerifyUserFace(log, user, ref, env) ==
    LET Out(success, status, score, logged, encoded, cmp, message) ==
            LET la == LogAuthentication(log, user, status, logged, env.db)
            IN  [success |-> success, status |-> status, match_score |-> score,
                 message |-> message, encoded |-> encoded,
                 compared |-> cmp # {},
                 method |-> IF cmp = {} THEN "" ELSE (CHOOSE c \in cmp : TRUE).method,
                 deep_failed |-> \E c \in cmp : c.deep_failed,
                 fallback |-> \E c \in cmp : c.fallback,
                 raised |-> la.raised, log |-> la.log]
        scored == CompareFaces(env)
    IN  IF ~env.store THEN Out(FALSE, "FAILED", 0, {}, 0, {}, "Xatolik yuz berdi")
        ELSE IF ref = "none"
             THEN Out(FALSE, "FAILED", 0, {}, 0, {}, "Passport fotosi topilmadi")
        ELSE IF ref = "corrupt" THEN Out(FALSE, "FAILED", 0, {}, 0, {}, "Xatolik yuz berdi")
        ELSE IF ref = "noface"
             THEN Out(FALSE, "NO_FACE", 0, {}, 1, {}, "Passport rasmida yuz topilmadi")
        ELSE IF env.cap = "corrupt"
             THEN Out(FALSE, "FAILED", 0, {}, 1, {}, "Xatolik yuz berdi")
        ELSE IF env.cap \in {"noface", "crash"}
             THEN Out(FALSE, "NO_FACE", 0, {0}, 2, {}, "Kiritilgan rasmda yuz topilmadi")
        ELSE Out(scored.score >= HIGH_MATCH_THRESHOLD, Classify(scored.score), scored.score,
                 {scored.score}, 2, {scored},
                 CASE Classify(scored.score) = "SUCCESS" -> "Yuz muvaffaqiyatli tasdiqlandi"
                   [] Classify(scored.score) = "LOW_QUALITY" -> "Yuz qisman mos keldi"
                   [] OTHER -> "Yuz mos kelmadi")

\* check_suspicious_activity: FAILED rows of the user in the trailing 24 hours
\* (every row of a run is inside that window).
CheckSuspiciousActivity(log, user) ==
    LET failed == {r \in BagToSet(log) : r.user = user /\ r.status = "FAILED"}
    IN  BagCardinality([r \in failed |-> CopiesIn(r, log)]) >= SUSPICIOUS_MAX_FAILURES

(* ------------------------------------------------------------------ *)
(* FaceAuthLoginView.post                                              *)
(* ------------------------------------------------------------------ *)
\* The server's workers, and a worker that is handling no call.
Workers == {1, 2}
Idle == [pc |-> "idle", payload |-> 0, recent_hashes |-> <<>>, current_time |-> 0,
         passed |-> FALSE]

NoRequest ==
    [endpoint |-> "", ident |-> "", payload |-> 0, hints |-> NoHints, again |-> FALSE,
     counted |-> 0, http |-> 0,
     live |-> FALSE, reason |-> "", stage |-> "", ran |-> FALSE, encoded |-> 0,
     cap |-> "", store |-> TRUE, method |-> "",
     compared |-> FALSE, deep_failed |-> FALSE, fallback |-> FALSE, raised |-> FALSE,
     stored |-> FALSE, success |-> FALSE, status |-> "", match_score |-> 0,
     blocked |-> FALSE, tokens |-> FALSE]

Max(a, b) == IF a >= b THEN a ELSE b
Min(a, b) == IF a <= b THEN a ELSE b

\* One POST of the face-login endpoint: user lookup, liveness, face check,
\* response.  envs: what the face check may meet (see FaceEnv); ups: whether
\* the cache answers.  An exception reaching the view makes it answer 500.
Login(ident, face_image, liveness_data, envs, ups) ==
    LET found == FindUser(ident)
        req == [NoRequest EXCEPT
                   !.endpoint = "face",
                   !.ident = ident, !.payload = face_image, !.hints = liveness_data,
                   !.again = (last.endpoint = "face" /\ last.ident = ident
                              /\ last.payload = face_image),
                   !.counted = CacheGet(cache.attempts[ident], 0, now)]
    IN  /\ UNCHANGED <<now, photo, calls, codec, webauthn>>
        /\ IF found = {}
           THEN /\ last' = [req EXCEPT !.http = 404]
                /\ UNCHANGED <<cache, auditLog, streak, sent>>
           ELSE \E up \in ups :
                LET user == CHOOSE u \in found : TRUE
                    lv == VerifyLiveness(cache, face_image, ident, liveness_data, now, up)
                    seen == [req EXCEPT !.live = lv.live, !.reason = lv.reason,
                                        !.stage = lv.stage]
                IN  /\ cache' = lv.cache
                    /\ sent' = IF lv.cache.recent = cache.recent THEN sent
                               ELSE Max(sent, face_image)
                    /\ IF ~lv.live
                       THEN /\ last' = [seen EXCEPT !.http = 403]
                            /\ UNCHANGED <<auditLog, streak>>
                       ELSE \E env \in envs :
                            LET result == VerifyUserFace(auditLog, user, photo[user], env)
                                broken == result.raised \/ (~result.success /\ ~env.store)
                                suspicious == ~broken
                                              /\ CheckSuspiciousActivity(result.log, user)
                            IN  /\ auditLog' = result.log
                                /\ streak' =
                                     [streak EXCEPT ![ident] =
                                        IF result.status \in {"FAILED", "NO_FACE"} THEN @ + 1
                                        ELSE IF result.status = "SUCCESS" THEN 0
                                        ELSE @]
                                /\ last' =
                                     [seen EXCEPT
                                        !.ran = TRUE, !.encoded = result.encoded,
                                        !.cap = env.cap, !.store = env.store,
                                        !.compared = result.compared,
                                        !.method = result.method,
                                        !.deep_failed = result.deep_failed,
                                        !.fallback = result.fallback,
                                        !.raised = result.raised,
                                        !.stored = env.db,
                                        !.success = result.success,
                                        !.status = result.status,
                                        !.match_score = result.match_score,
                                        !.blocked = ~result.success /\ suspicious,
                                        !.tokens = result.success /\ ~broken,
                                        !.http = IF broken THEN 500
                                                 ELSE IF result.success THEN 200
                                                 ELSE IF suspicious THEN 403 ELSE 401]

(* ------------------------------------------------------------------ *)
(* GovernmentFaceLoginView.post                                        *)
(* ------------------------------------------------------------------ *)
\* User.objects.get(pnfl=...)
FindUserByPnfl(pnfl) == IF pnfl = "pinfl_alice" THEN {"alice"} ELSE {}

\* The liveness_data this view looks at: nothing, or "passive" data whose
\* confidence, micro-movements and lighting variations are all under their
\* floors ("weak"), or not ("steady").
PassiveKinds == {"none", "weak", "steady"}

\* One POST of the government face-login endpoint: the passive-data screen,
\* user and passport lookup, both encodings, compare_faces, the 0.65 threshold,
\* tokens.  It calls neither LivenessVerificationService nor
\* _log_authentication.
GovernmentLogin(pnfl, face_image, passive, envs) ==
    \E env \in envs :
    LET found == FindUserByPnfl(pnfl)
        req == [NoRequest EXCEPT !.endpoint = "government", !.ident = pnfl,
                                 !.payload = face_image]
        scored == CompareFaces(env)
        accepted == scored.score >= GOVERNMENT_THRESHOLD
    IN  /\ UNCHANGED <<now, cache, photo, auditLog, sent, streak, calls, codec, webauthn>>
        /\ last' =
             IF passive = "weak" THEN [req EXCEPT !.http = 400]
             ELSE IF ~env.store THEN [req EXCEPT !.http = 500]
             ELSE IF found = {} THEN [req EXCEPT !.http = 404]
             ELSE LET user == CHOOSE u \in found : TRUE
                  IN  IF photo[user] = "none" THEN [req EXCEPT !.http = 404]
                      ELSE IF photo[user] = "corrupt" \/ env.cap = "corrupt"
                      THEN [req EXCEPT !.http = 500]
                      ELSE IF photo[user] = "noface"
                      THEN [req EXCEPT !.http = 500, !.encoded = 2]
                      ELSE IF env.cap \in {"noface", "crash"}
                      THEN [req EXCEPT !.http = 400, !.encoded = 2]
                      ELSE [req EXCEPT
                               !.encoded = 2, !.compared = TRUE,
                               !.method = scored.method,
                               !.deep_failed = scored.deep_failed,
                               !.fallback = scored.fallback,
                               !.match_score = scored.score,
                               !.success = accepted, !.tokens = accepted,
                               !.http = IF accepted THEN 200 ELSE 401]

(* ------------------------------------------------------------------ *)
(* Concurrent calls of verify_liveness                                 *)
(* ------------------------------------------------------------------ *)
\* A worker takes a call for "alice" with a sound capture and no hints: the
\* lockout, decode, quality and genuineness checks read but do not write, and
\* the call stands before _check_uniqueness.
CallBegin(w, image_data) ==
    /\ calls[w].pc = "idle"
    /\ CheckRateLimit(cache, "alice", now).ok
    /\ calls' = [calls EXCEPT ![w] = [Idle EXCEPT !.pc = "read_recent",
                                                  !.payload = image_data]]
    /\ UNCHANGED <<now, cache, photo, auditLog, sent, streak, last, codec, webauthn>>

\* recent_hashes = cache.get(recent_key, []); if image_hash in recent_hashes
CallReadRecent(w) ==
    /\ calls[w].pc = "read_recent"
    /\ LET recent_hashes == CacheGet(cache.recent["alice"], <<>>, now)
       IN  calls' = [calls EXCEPT ![w] =
                       IF InSeq(Sha256(calls[w].payload), recent_hashes)
                       THEN [@ EXCEPT !.pc = "done", !.passed = FALSE]
                       ELSE [@ EXCEPT !.pc = "read_time",
                                      !.recent_hashes = recent_hashes]]
    /\ UNCHANGED <<now, cache, photo, auditLog, sent, streak, last, codec, webauthn>>

\* current_time = time.time(); last_time = cache.get(last_time_key, 0); floor
CallReadTime(w) ==
    /\ calls[w].pc = "read_time"
    /\ LET last_time == CacheGet(cache.last_time["alice"], 0, now)
       IN  calls' = [calls EXCEPT ![w] =
                       IF now - last_time < MIN_TIME_BETWEEN_ATTEMPTS
                       THEN [@ EXCEPT !.pc = "done", !.passed = FALSE]
                       ELSE [@ EXCEPT !.pc = "write_recent", !.current_time = now]]
    /\ UNCHANGED <<now, cache, photo, auditLog, sent, streak, last, codec, webauthn>>

\* recent_hashes.append(image_hash); cache.set(recent_key, recent_hashes[-10:])
CallWriteRecent(w) ==
    /\ calls[w].pc = "write_recent"
    /\ cache' = [cache EXCEPT !.recent["alice"] =
                    CacheSet(KeepLast(Append(calls[w].recent_hashes,
                                             Sha256(calls[w].payload)), RECENT_KEEP),
                             CACHE_TIMEOUT, now)]
    /\ calls' = [calls EXCEPT ![w].pc = "write_time"]
    /\ UNCHANGED <<now, photo, auditLog, sent, streak, last, codec, webauthn>>

\* cache.set(last_time_key, current_time); then _store_attempt(success=True)
\* deletes the counter and verify_liveness returns True.
CallWriteTime(w) ==
    /\ calls[w].pc = "write_time"
    /\ cache' = StoreAttempt(
                    [cache EXCEPT !.last_time["alice"] =
                        CacheSet(calls[w].current_time, CACHE_TIMEOUT, now)],
                    "alice", TRUE, now)
    /\ calls' = [calls EXCEPT ![w].pc = "done", ![w].passed = TRUE]
    /\ UNCHANGED <<now, photo, auditLog, sent, streak, last, codec, webauthn>>

\* The worker is free for the next call.
CallReturn(w) ==
    /\ calls[w].pc = "done"
    /\ calls' = [calls EXCEPT ![w] = Idle]
    /\ UNCHANGED <<now, cache, photo, auditLog, sent, streak, last, codec, webauthn>>

\* LivenessVerificationService.reset_user_lockout, the administrative reset.
ResetUserLockout(ident) ==
    /\ cache' = ResetLockout(cache, ident)
    /\ streak' = [streak EXCEPT ![ident] = 0]
    /\ last' = NoRequest
    /\ UNCHANGED <<now, photo, auditLog, sent, calls, codec, webauthn>>

\* The clock moves on by d seconds, up to the horizon.
Tick(d, horizon) ==
    /\ now + d <= StartTime + horizon
    /\ now' = now + d
    /\ last' = NoRequest
    /\ UNCHANGED <<cache, photo, auditLog, sent, streak, calls, codec, webauthn>>

(* ------------------------------------------------------------------ *)
(* The two image decoders                                              *)
(* ------------------------------------------------------------------ *)
\* The characters a payload is written in: two of the base64 alphabet ("A"
\* stands for the characters an image file's signature encodes to), the padding
\* sign, a blank and the comma.
Alphabet == {"A", "B"}
Chars == Alphabet \cup {"=", " ", ","}

\* A payload: the text after an optional "data:image/jpeg;base64," prefix.
Bodies(n) == UNION {[1..k -> Chars] : k \in 0..n}
Payloads(n) == [url : BOOLEAN, body : Bodies(n)]

\* str.split(',') of a text without its prefix: the part before the first comma
\* and the rest after it.
FirstComma(s) ==
    IF \E k \in 1..Len(s) : s[k] = ","
    THEN CHOOSE k \in 1..Len(s) : s[k] = "," /\ \A m \in 1..(k - 1) : s[m] # ","
    ELSE Len(s) + 1
UpToComma(s) == SubSeq(s, 1, FirstComma(s) - 1)
AfterComma(s) == SubSeq(s, FirstComma(s) + 1, Len(s))

\* base64_to_image: `if ',' in s: s = s.split(',')[1]`.  The prefix ends in the
\* string's first comma.
SplitComma(payload) ==
    IF payload.url THEN UpToComma(payload.body)
    ELSE IF FirstComma(payload.body) <= Len(payload.body)
         THEN UpToComma(AfterComma(payload.body))
         ELSE payload.body

\* _decode_image: `if 'base64,' in s: s = s.split('base64,')[1]`.  Only the
\* prefix holds that marker.
SplitBase64(payload) == payload.body

\* ''.join(s.split()) and re.sub(r'[^A-Za-z0-9+/]', '', s)
RemoveWhitespace(s) == SelectSeq(s, LAMBDA ch : ch # " ")
RemoveNonAlphabet(s) == SelectSeq(s, LAMBDA ch : ch \in Alphabet)

\* The padding repair with one '=' for a remainder of two.
PadRepairShort(s) ==
    LET remainder == Len(s) % 4
    IN  IF remainder = 1 THEN SubSeq(s, 1, Len(s) - 1)
        ELSE IF remainder = 2 THEN s \o <<"=">>
        ELSE IF remainder = 3 THEN s \o <<"=">>
        ELSE s

\* The padding repair of base64_to_image.
PadRepair(s) ==
    LET remainder == Len(s) % 4
    IN  IF remainder = 1 THEN SubSeq(s, 1, Len(s) - 1)
        ELSE IF remainder = 2 THEN s \o <<"=", "=">>
        ELSE IF remainder = 3 THEN s \o <<"=">>
        ELSE s

\* base64.b64decode(s) (validate=False), as binascii.a2b_base64 scans: a '='
\* that completes the padding of a quad ends the decoding, any other '=' and
\* every character outside the alphabet is skipped, and at the end of the text
\* a quad left open is an error ("Incorrect padding").  "data": the alphabet
\* characters that were decoded, which fix the bytes that come out.
RECURSIVE A2bBase64(_, _, _, _, _)
A2bBase64(s, k, quad_pos, pads, data) ==
    IF k > Len(s) THEN [ok |-> quad_pos = 0, data |-> data]
    ELSE IF s[k] = "="
         THEN IF quad_pos >= 2 /\ quad_pos + pads + 1 >= 4
              THEN [ok |-> TRUE, data |-> data]
              ELSE A2bBase64(s, k + 1, quad_pos,
                             IF quad_pos >= 2 THEN pads + 1 ELSE pads, data)
    ELSE IF s[k] \notin Alphabet THEN A2bBase64(s, k + 1, quad_pos, pads, data)
    ELSE A2bBase64(s, k + 1, (quad_pos + 1) % 4, 0, Append(data, s[k]))

B64Decode(s) == A2bBase64(s, 1, 0, 0, <<>>)

\* The second try of base64_to_image after a failed b64decode: pad with '=' up
\* to a multiple of four and decode once more.
B64DecodeRetry(s) ==
    LET first == B64Decode(s)
        padded == IF Len(s) % 4 = 0 THEN s
                  ELSE s \o [k \in 1..(4 - (Len(s) % 4)) |-> "="]
    IN  IF first.ok THEN first ELSE B64Decode(padded)

\* Image.open(BytesIO(image_bytes)): the bytes start with an image signature.
ImageOpen(data) == Len(data) >= 2 /\ data[1] = "A"

NotRun == [ran |-> FALSE, ok |-> FALSE, data |-> <<>>, cleaned |-> <<>>, repaired |-> <<>>]

\* FaceAuthenticationService.base64_to_image: ok = an array is returned (FALSE:
\* ValueError).
Base64ToImage(payload) ==
    LET cleaned == RemoveNonAlphabet(RemoveWhitespace(SplitComma(payload)))
        repaired == PadRepair(cleaned)
        bytes == B64DecodeRetry(repaired)
    IN  [ran |-> TRUE, ok |-> bytes.ok /\ ImageOpen(bytes.data),
         data |-> IF bytes.ok THEN bytes.data ELSE <<>>,
         cleaned |-> cleaned, repaired |-> repaired]

\* LivenessVerificationService._decode_image on the text of a payload: ok = an
\* image is returned (FALSE: None, which verify_liveness answers with
\* "Noto'g'ri rasm formati").
DecodeImageText(payload) ==
    LET text == SplitBase64(payload)
        bytes == B64Decode(text)
    IN  [ran |-> TRUE, ok |-> bytes.ok /\ ImageOpen(bytes.data),
         data |-> IF bytes.ok THEN bytes.data ELSE <<>>,
         cleaned |-> text, repaired |-> text]

NoCodec == [payload |-> [url |-> FALSE, body |-> <<>>], face |-> NotRun, guard |-> NotRun]

\* The face check decodes the payload.
RunBase64ToImage ==
    /\ ~codec.face.ran
    /\ codec' = [codec EXCEPT !.face = Base64ToImage(codec.payload)]
    /\ UNCHANGED <<now, cache, photo, auditLog, sent, streak, calls, last, webauthn>>

\* The liveness check decodes the payload.
RunDecodeImage ==
    /\ ~codec.guard.ran
    /\ codec' = [codec EXCEPT !.guard = DecodeImageText(codec.payload)]
    /\ UNCHANGED <<now, cache, photo, auditLog, sent, streak, calls, last, webauthn>>

(* ------------------------------------------------------------------ *)
(* WebAuthn: webauthn_views and webauthn_models                        *)
(* ------------------------------------------------------------------ *)
\* generate_challenge() draws 32 random bytes: the challenges are numbered in
\* the order they are issued.
ChallengeIds == 1..MaxChallenges
CredentialIds == {"k1", "k2"}

\* A WebAuthnChallenge row ("none": no such row) and a WebAuthnCredential row.
NoChallenge == [row |-> "none", user |-> "-", created_at |-> 0, is_used |-> FALSE]
NoCredential == [row |-> "none", user |-> "-", sign_count |-> 0]

\* A worker between requests; in a finish request it holds the request's data
\* and the objects it has loaded.  "pc": "found" after the challenge query,
\* "marked" after challenge_obj.save(), "done" with the response.
NoFinish ==
    [pc |-> "idle", view |-> "none", user |-> "-", challenge |-> 0,
     credentialId |-> "-", challenge_obj |-> NoChallenge, credential |-> NoCredential,
     http |-> 0, error |-> "none"]

\* "issued": how many challenges were generated; "accepted": per challenge, how
\* many finish requests were answered 200.
NoWebAuthn ==
    [challenges |-> [ch \in ChallengeIds |-> NoChallenge],
     credentials |-> [k \in CredentialIds |-> NoCredential],
     issued |-> 0,
     finish |-> [w \in Workers |-> NoFinish],
     accepted |-> [ch \in ChallengeIds |-> 0]]

\* WebAuthnChallenge.objects.filter(created_at__lt=now - 5 minutes).delete()
DeleteOld(challenges, t) ==
    [ch \in ChallengeIds |->
        IF challenges[ch].row = "row" /\ challenges[ch].created_at < t - CHALLENGE_MAX_AGE
        THEN NoChallenge ELSE challenges[ch]]

\* WebAuthnChallenge.objects.filter(user=, challenge=, is_used=False).first()
FindChallenge(challenges, user, challenge) ==
    IF /\ challenges[challenge].row = "row"
       /\ challenges[challenge].user = user
       /\ ~challenges[challenge].is_used
    THEN challenges[challenge] ELSE NoChallenge

\* register_webauthn_start of a signed-in user: a new challenge row, then the
\* old rows are deleted.
RegisterWebauthnStart(user) ==
    /\ webauthn.issued < MaxChallenges
    /\ LET ch == webauthn.issued + 1
           made == [webauthn.challenges EXCEPT
                       ![ch] = [row |-> "row", user |-> user, created_at |-> now,
                                is_used |-> FALSE]]
       IN  webauthn' = [webauthn EXCEPT !.issued = ch,
                                        !.challenges = DeleteOld(made, now)]
    /\ UNCHANGED <<now, cache, photo, auditLog, sent, streak, calls, last, codec>>

\* login_webauthn_start for a user with a registered credential (400 without
\* one): a new challenge row.
LoginWebauthnStart(username) ==
    /\ webauthn.issued < MaxChallenges
    /\ \E k \in CredentialIds :
          webauthn.credentials[k].row = "row" /\ webauthn.credentials[k].user = username
    /\ LET ch == webauthn.issued + 1
       IN  webauthn' = [webauthn EXCEPT
                           !.issued = ch,
                           !.challenges[ch] = [row |-> "row", user |-> username,
                                               created_at |-> now, is_used |-> FALSE]]
    /\ UNCHANGED <<now, cache, photo, auditLog, sent, streak, calls, last, codec>>

\* register_webauthn_finish up to the challenge query: 400 when no unused row
\* of this user carries the challenge.
RegisterFinishFind(w, user, challenge, credentialId) ==
    /\ webauthn.finish[w].pc = "idle"
    /\ LET challenge_obj == FindChallenge(webauthn.challenges, user, challenge)
           req == [NoFinish EXCEPT !.view = "register", !.user = user,
                                   !.challenge = challenge,
                                   !.credentialId = credentialId]
       IN  webauthn' = [webauthn EXCEPT !.finish[w] =
               IF challenge_obj = NoChallenge
               THEN [req EXCEPT !.pc = "done", !.http = 400, !.error = "challenge"]
               ELSE [req EXCEPT !.pc = "found", !.challenge_obj = challenge_obj]]
    /\ UNCHANGED <<now, cache, photo, auditLog, sent, streak, calls, last, codec>>

\* login_webauthn_finish up to the challenge query: 400 'Invalid credential'
\* when the credential is unknown, 400 when no unused row of the credential's
\* user carries the challenge.
LoginFinishFind(w, challenge, credentialId) ==
    /\ webauthn.finish[w].pc = "idle"
    /\ LET credential == webauthn.credentials[credentialId]
           challenge_obj == FindChallenge(webauthn.challenges, credential.user, challenge)
           req == [NoFinish EXCEPT !.view = "login", !.challenge = challenge,
                                   !.credentialId = credentialId]
       IN  webauthn' = [webauthn EXCEPT !.finish[w] =
               IF credential.row = "none"
               THEN [req EXCEPT !.pc = "done", !.http = 400, !.error = "credential"]
               ELSE IF challenge_obj = NoChallenge
               THEN [req EXCEPT !.pc = "done", !.http = 400, !.error = "challenge",
                                !.user = credential.user]
               ELSE [req EXCEPT !.pc = "found", !.user = credential.user,
                                !.credential = credential,
                                !.challenge_obj = challenge_obj]]
    /\ UNCHANGED <<now, cache, photo, auditLog, sent, streak, calls, last, codec>>

\* challenge_obj.is_used = True; challenge_obj.save(): the loaded object is
\* written back (save() inserts the row again if it was deleted meanwhile).
FinishMark(w) ==
    /\ webauthn.finish[w].pc = "found"
    /\ LET f == webauthn.finish[w]
       IN  webauthn' = [webauthn EXCEPT
                           !.challenges[f.challenge] = [f.challenge_obj EXCEPT !.is_used = TRUE],
                           !.finish[w].pc = "marked"]
    /\ UNCHANGED <<now, cache, photo, auditLog, sent, streak, calls, last, codec>>

\* The rest of register_webauthn_finish: WebAuthnCredential.objects.create
\* (credential_id is unique: a second row with it raises, 500), then 200.
RegisterFinishCreate(w) ==
    /\ webauthn.finish[w].pc = "marked" /\ webauthn.finish[w].view = "register"
    /\ LET f == webauthn.finish[w]
       IN  IF webauthn.credentials[f.credentialId].row = "row"
           THEN webauthn' = [webauthn EXCEPT !.finish[w].pc = "done",
                                             !.finish[w].http = 500,
                                             !.finish[w].error = "integrity"]
           ELSE webauthn' = [webauthn EXCEPT
                                !.credentials[f.credentialId] =
                                    [row |-> "row", user |-> f.user, sign_count |-> 0],
                                !.accepted[f.challenge] = @ + 1,
                                !.finish[w].pc = "done",
                                !.finish[w].http = 200]
    /\ UNCHANGED <<now, cache, photo, auditLog, sent, streak, calls, last, codec>>

\* The rest of login_webauthn_finish: sign_count += 1 on the loaded credential,
\* credential.save(), the JWT tokens, 200.
LoginFinishTokens(w) ==
    /\ webauthn.finish[w].pc = "marked" /\ webauthn.finish[w].view = "login"
    /\ LET f == webauthn.finish[w]
       IN  webauthn' = [webauthn EXCEPT
                           !.credentials[f.credentialId] =
                               [f.credential EXCEPT !.sign_count = @ + 1],
                           !.accepted[f.challenge] = @ + 1,
                           !.finish[w].pc = "done",
                           !.finish[w].http = 200]
    /\ UNCHANGED <<now, cache, photo, auditLog, sent, streak, calls, last, codec>>

\* The response is sent and the worker is free again.
FinishReturn(w) ==
    /\ webauthn.finish[w].pc = "done"
    /\ webauthn' = [webauthn EXCEPT !.finish[w] = NoFinish]
    /\ UNCHANGED <<now, cache, photo, auditLog, sent, streak, calls, last, codec>>

(* ------------------------------------------------------------------ *)
(* Specifications                                                      *)
(* ------------------------------------------------------------------ *)
\* Payloads a client may send next: the defective ones, those recorded before,
\* and one new capture (the server keeps nothing of a capture but its recorded
\* digest, so captures are numbered in the order they are first recorded).
Sendable(n) == 1..Min(sent + 1, n)
\* The captures among them that are sound photographs.
Captures(n) == (NumBad + 1)..Min(sent + 1, n)

\* The reference photos on file: every kind occurs for the user who logs in.
Stored == {[u \in Users |-> IF u = "alice" THEN k ELSE "none"] : k \in RefKinds}

Init ==
    /\ now = StartTime
    /\ cache = EmptyCache
    /\ photo \in Stored
    /\ auditLog = EmptyBag
    /\ sent = NumBad
    /\ streak = [i \in Idents |-> 0]
    /\ calls = [w \in Workers |-> Idle]
    /\ codec = NoCodec
    /\ webauthn = NoWebAuthn
    /\ last = NoRequest

Next ==
    \/ \E i \in {"alice", "nobody"}, p \in Sendable(NumPayloads), h \in SomeHints :
           Login(i, p, h, FaceEnvs({64, 65, 80}), {TRUE})
    \/ \E i \in {"alice"} : ResetUserLockout(i)
    \/ Tick(1, MaxTime)

Spec == Init /\ [][Next]_vars

\* A user with a reference photo on file fails the face check again and again:
\* one login every two seconds, each with a sound capture.
InitStreak == Init /\ photo["alice"] = "face"

NextStreak ==
    \/ \E p \in Captures(StreakPayloads) :
           Login("alice", p, NoHints, {e \in FaceEnvs({64, 80}) : e.db}, {TRUE})
    \/ Tick(2, StreakTime)

SpecStreak == InitStreak /\ [][NextStreak]_vars

\* A user logs in more often than the replay cache is long.
InitReplay == Init /\ photo["alice"] = "face"

NextReplay ==
    \/ \E p \in Captures(ReplayPayloads) :
           Login("alice", p, NoHints, {FaceEnv("face", 80, TRUE)}, {TRUE})
    \/ Tick(2, ReplayTime)

SpecReplay == InitReplay /\ [][NextReplay]_vars

\* The cache is a store shared with other processes and it outlives a server
\* process: a run may start with a failure counter or a lockout already in it.
\* (From an empty cache no step of the program writes a counter above zero, so
\* the lockout branch of _check_rate_limit is only met from such a start.)
WarmCaches ==
    {[EmptyCache EXCEPT !.attempts["alice"] = a, !.lockout["alice"] = l] :
        a \in {NoCount} \cup {CacheSet(n, CACHE_TIMEOUT, StartTime) : n \in 1..MAX_FAILED_ATTEMPTS},
        l \in {NoFlag, CacheSet(TRUE, LOCKOUT_DURATION, StartTime)}}

InitWarm ==
    /\ now = StartTime
    /\ cache \in WarmCaches
    /\ photo = [u \in Users |-> IF u = "alice" THEN "face" ELSE "none"]
    /\ auditLog = EmptyBag
    /\ sent = NumBad
    /\ streak = [i \in Idents |-> 0]
    /\ calls = [w \in Workers |-> Idle]
    /\ codec = NoCodec
    /\ webauthn = NoWebAuthn
    /\ last = NoRequest

NextWarm ==
    \/ \E p \in Sendable(NumPayloads), h \in SomeHints :
           Login("alice", p, h, {FaceEnv("face", sc, TRUE) : sc \in {64, 80}}, {TRUE})
    \/ ResetUserLockout("alice")
    \/ Tick(1, MaxTime)
    \/ Tick(LOCKOUT_DURATION, WarmTime)

SpecWarm == InitWarm /\ [][NextWarm]_vars

\* The face check on every kind of server: each library set-up, DeepFace
\* absent, failing or answering, a failing locator, scorer, store or audit
\* insert, and the scores on both sides of the two thresholds.
FaceCalls ==
    LET cv == [FaceEnv("face", 0, TRUE) EXCEPT !.lib = "cv", !.dist = 0]
    IN  {FaceEnv("face", sc, db) : sc \in {64, 65, 79, 80}, db \in BOOLEAN}
          \cup {FaceEnv(cap, 0, TRUE) : cap \in {"corrupt", "noface", "crash"}}
          \cup {[FaceEnv("face", 80, FALSE) EXCEPT !.store = FALSE],
                [FaceEnv("face", 80, TRUE) EXCEPT !.classic = "raises"],
                [cv EXCEPT !.ssim = 60, !.orb = 50, !.hist = 60],
                [cv EXCEPT !.ssim = 90, !.orb = 50, !.hist = 90],
                [cv EXCEPT !.ssim = -100],
                [cv EXCEPT !.deep = "ok", !.ssim = -100],
                [cv EXCEPT !.classic = "raises"],
                [cv EXCEPT !.deep = "ok", !.sim = 90],
                [cv EXCEPT !.deep = "ok", !.sim = 60, !.ssim = 100, !.hist = 100],
                [cv EXCEPT !.deep = "ok", !.sim = 60, !.classic = "raises"],
                [cv EXCEPT !.deep = "raises", !.ssim = 90, !.orb = 50, !.hist = 90],
                [cv EXCEPT !.deep = "raises", !.ssim = 60, !.orb = 50, !.hist = 60],
                [cv EXCEPT !.deep = "raises", !.classic = "raises"],
                [cv EXCEPT !.lib = "cvonly"],
                [cv EXCEPT !.lib = "cvonly", !.deep = "ok", !.sim = 60],
                [cv EXCEPT !.lib = "cvonly", !.deep = "raises"]}

NextFace ==
    \/ \E p \in Captures(FacePayloads) :
           Login("alice", p, NoHints, FaceCalls, BOOLEAN)
    \/ \E i \in {"pinfl_alice", "nobody"}, p \in Captures(FacePayloads),
          k \in PassiveKinds :
           GovernmentLogin(i, p, k, FaceCalls)
    \/ Tick(2, FaceTime)

SpecFace == Init /\ [][NextFace]_vars

\* Logins of a user with a reference photo, with every kind of client hints.
InitHints == Init /\ photo["alice"] = "face"

NextHints ==
    \/ \E p \in Captures(HintPayloads), h \in HintSet :
           Login("alice", p, h, {FaceEnv("face", 80, TRUE)}, {TRUE})
    \/ Tick(2, HintTime)

SpecHints == InitHints /\ [][NextHints]_vars

\* Two workers of the server handle calls for the same identity at once; the
\* steps of their _check_uniqueness calls interleave.
InitRace == Init /\ photo["alice"] = "face"

NextRace ==
    \/ \E w \in Workers, p \in (NumBad + 1)..RacePayloads : CallBegin(w, p)
    \/ \E w \in Workers : CallReadRecent(w)
    \/ \E w \in Workers : CallReadTime(w)
    \/ \E w \in Workers : CallWriteRecent(w)
    \/ \E w \in Workers : CallWriteTime(w)
    \/ \E w \in Workers : CallReturn(w)
    \/ Tick(2, RaceTime)

SpecRace == InitRace /\ [][NextRace]_vars

\* Two users, one of them known to the login view under two identifiers (the
\* username and the PINFL), start locked out; an administrator resets
\* identifiers while logins go on.
PairCaches ==
    {[EmptyCache EXCEPT
         !.lockout["alice"] = CacheSet(TRUE, LOCKOUT_DURATION, StartTime),
         !.attempts["alice"] = a,
         !.lockout["bob"] = CacheSet(TRUE, LOCKOUT_DURATION, StartTime),
         !.attempts["bob"] = CacheSet(2, CACHE_TIMEOUT, StartTime)] :
        a \in {NoCount, CacheSet(MAX_FAILED_ATTEMPTS - 1, CACHE_TIMEOUT, StartTime)}}

InitPair ==
    /\ now = StartTime
    /\ cache \in PairCaches
    /\ photo = [u \in Users |-> "face"]
    /\ auditLog = EmptyBag
    /\ sent = NumBad
    /\ streak = [i \in Idents |-> 0]
    /\ calls = [w \in Workers |-> Idle]
    /\ codec = NoCodec
    /\ webauthn = NoWebAuthn
    /\ last = NoRequest

NextPair ==
    \/ \E i \in {"alice", "bob", "pinfl_alice"}, p \in Captures(PairPayloads) :
           Login(i, p, NoHints, {FaceEnv("face", HIGH_MATCH_THRESHOLD, TRUE)}, {TRUE})
    \/ \E i \in {"alice", "bob", "pinfl_alice"} : ResetUserLockout(i)
    \/ Tick(2, PairTime)

SpecPair == InitPair /\ [][NextPair]_vars

\* One payload of up to MaxBody characters, with or without the data-URL
\* prefix, goes through both decoders.
InitCodec ==
    /\ now = StartTime
    /\ cache = EmptyCache
    /\ photo = [u \in Users |-> "face"]
    /\ auditLog = EmptyBag
    /\ sent = NumBad
    /\ streak = [i \in Idents |-> 0]
    /\ calls = [w \in Workers |-> Idle]
    /\ last = NoRequest
    /\ codec \in {[NoCodec EXCEPT !.payload = p] : p \in Payloads(MaxBody)}
    /\ webauthn = NoWebAuthn

NextCodec ==
    \/ RunBase64ToImage
    \/ RunDecodeImage

SpecCodec == InitCodec /\ [][NextCodec]_vars

\* alice has one credential registered; registrations and logins are started,
\* and finish requests, also two at a time, present the challenges.
InitAuthn ==
    /\ now = StartTime
    /\ cache = EmptyCache
    /\ photo = [u \in Users |-> "face"]
    /\ auditLog = EmptyBag
    /\ sent = NumBad
    /\ streak = [i \in Idents |-> 0]
    /\ calls = [w \in Workers |-> Idle]
    /\ last = NoRequest
    /\ codec = NoCodec
    /\ webauthn = [NoWebAuthn EXCEPT
                      !.credentials["k1"] = [row |-> "row", user |-> "alice",
                                             sign_count |-> 0]]

NextAuthn ==
    \/ \E u \in Users : RegisterWebauthnStart(u)
    \/ LoginWebauthnStart("alice")
    \/ \E w \in Workers, ch \in ChallengeIds, k \in CredentialIds :
           RegisterFinishFind(w, "alice", ch, k)
    \/ \E w \in Workers, ch \in ChallengeIds, k \in CredentialIds :
           LoginFinishFind(w, ch, k)
    \/ \E w \in Workers : FinishMark(w)
    \/ \E w \in Workers : RegisterFinishCreate(w)
    \/ \E w \in Workers : LoginFinishTokens(w)
    \/ \E w \in Workers : FinishReturn(w)
    \/ Tick(CHALLENGE_MAX_AGE + 1, AuthnTime)

SpecAuthn == InitAuthn /\ [][NextAuthn]_vars

(* ------------------------------------------------------------------ *)
(* Reading the state                                                   *)
(* ------------------------------------------------------------------ *)
\* cache.get of the four keys of one identifier.
LockedOut(c, i, t) == CacheGet(c.lockout[i], FALSE, t)
Attempts(c, i, t) == CacheGet(c.attempts[i], 0, t)
Recent(c, i, t) == CacheGet(c.recent[i], <<>>, t)
LastTime(c, i, t) == CacheGet(c.last_time[i], 0, t)

\* This step handled a request (of a known user, with the face check run).
Handled == last' # NoRequest /\ last' # last
HandledKnown == Handled /\ FindUser(last'.ident) # {}
FaceChecked == Handled /\ last'.ran

\* Rows of the audit table, in all and of one user with a status from a set.
Rows(log) == BagCardinality(log)
RowsOf(log, user, statuses) ==
    LET hit == {r \in BagToSet(log) : r.user = user /\ r.status \in statuses}
    IN  BagCardinality([r \in hit |-> CopiesIn(r, log)])

TheUser(ident) == CHOOSE u \in FindUser(ident) : TRUE

(* ------------------------------------------------------------------ *)
(* C1                                                                  *)
(* ------------------------------------------------------------------ *)
\* C1: after five FAILED or NO_FACE outcomes in a row for one identity the
\* rate-limit check turns that identity away (the lockout is set), so that a
\* sixth attempt inside the lockout window never gets as far as the face check:
\* no identity collects a sixth failed outcome in a row.
C1_LockoutAfterFive ==
    \A i \in Idents :
        /\ streak[i] >= MAX_FAILED_ATTEMPTS => ~CheckRateLimit(cache, i, now).ok
        /\ streak[i] <= MAX_FAILED_ATTEMPTS

(* ------------------------------------------------------------------ *)
(* C2                                                                  *)
(* ------------------------------------------------------------------ *)
\* C2: while the lockout of an identity is active, every verify_liveness call
\* for it is rejected with the "too many attempts" reason at the rate-limit
\* check, whatever the payload and the hints are, and nothing of the replay
\* cache, the timing floor or the audit table is touched.
C2_LockedOutShortCircuits ==
    [][(HandledKnown /\ LockedOut(cache, last'.ident, now)) =>
         /\ ~last'.live /\ last'.reason = R_LOCKOUT /\ last'.stage = "rate_limit"
         /\ ~last'.ran
         /\ cache' = cache /\ auditLog' = auditLog]_vars

\* A sound capture with good hints was turned away by an active lockout.
C2_Witness ==
    /\ last.reason = R_LOCKOUT /\ last.stage = "rate_limit" /\ last.payload > NumBad
    /\ LockedOut(cache, last.ident, now)

(* ------------------------------------------------------------------ *)
(* C4                                                                  *)
(* ------------------------------------------------------------------ *)
\* C4: after a SUCCESS outcome for an identity its failure counter is zero,
\* whatever it was before.
C4_SuccessResetsCounter ==
    (last.ran /\ last.status = "SUCCESS") => Attempts(cache, last.ident, now) = 0

\* A SUCCESS came in with the counter at four of five, and the counter is gone.
C4_Witness ==
    /\ last.ran /\ last.status = "SUCCESS" /\ last.counted = MAX_FAILED_ATTEMPTS - 1
    /\ Attempts(cache, last.ident, now) = 0

(* ------------------------------------------------------------------ *)
(* C3                                                                  *)
(* ------------------------------------------------------------------ *)
\* C3: each FAILED or NO_FACE outcome of a verification attempt adds exactly one
\* to the failure counter of the identity, and a LOW_QUALITY outcome leaves the
\* counter as it was.
C3_CounterFollowsOutcome ==
    [][FaceChecked =>
         LET i == last'.ident
         IN  /\ last'.status \in {"FAILED", "NO_FACE"}
                   => Attempts(cache', i, now') = Attempts(cache, i, now) + 1
             /\ last'.status = "LOW_QUALITY"
                   => Attempts(cache', i, now') = Attempts(cache, i, now)]_vars

(* ------------------------------------------------------------------ *)
(* C5                                                                  *)
(* ------------------------------------------------------------------ *)
\* C5 as claimed: every call of verify_user_face adds exactly one audit row,
\* carrying the status it returns.
C5_ExactlyOneRow ==
    [][FaceChecked =>
         auditLog' = auditLog (+) SetToBag({[user |-> TheUser(last'.ident),
                                            status |-> last'.status,
                                            match_score |-> {}]})
         \/ \E sc \in 0..100 :
              auditLog' = auditLog (+) SetToBag({[user |-> TheUser(last'.ident),
                                                 status |-> last'.status,
                                                 match_score |-> {sc}]})]_vars

\* C5 as amended: a call of verify_user_face whose audit insert goes through
\* adds exactly one row, of the user, carrying the status the call returns; a
\* call whose insert fails adds none; no call adds two or touches another row.
C5_OneRowWhenStored ==
    [][FaceChecked =>
         IF last'.stored
         THEN \E sc \in {{}} \cup {{x} : x \in 0..100} :
                auditLog' = auditLog (+) SetToBag({[user |-> TheUser(last'.ident),
                                                   status |-> last'.status,
                                                   match_score |-> sc]})
         ELSE auditLog' = auditLog]_vars

\* A face check that ended on the exception path has left its FAILED row.
C5_Witness ==
    /\ last.ran /\ last.stored /\ last.status = "FAILED" /\ last.encoded = 1
    /\ RowsOf(auditLog, "alice", {"FAILED"}) = 1
    /\ Rows(auditLog) = 1

(* ------------------------------------------------------------------ *)
(* C6                                                                  *)
(* ------------------------------------------------------------------ *)
\* C6: a login attempt that the liveness screen rejects still leaves a terminal
\* failure row in the audit table for that user.
C6_RejectedAttemptLogged ==
    (last # NoRequest /\ FindUser(last.ident) # {} /\ ~last.live)
        => RowsOf(auditLog, TheUser(last.ident), AuthStatus \ {"SUCCESS"}) >= 1

(* ------------------------------------------------------------------ *)
(* C7                                                                  *)
(* ------------------------------------------------------------------ *)
\* C7 as claimed: the same payload sent twice in a row for one identity: the
\* second call is rejected with the replay reason, whatever the payload holds.
C7_SecondIsReplay ==
    (last.again /\ FindUser(last.ident) # {}) => (~last.live /\ last.reason = R_REPLAY)

\* C7 as amended: a payload whose digest the replay check has recorded for the
\* identity (it passed lockout, decode, quality and genuineness) and still
\* holds there is rejected with the replay reason when it is sent again while
\* the identity is not locked out; sent again straight after a rejection at
\* decode, quality or genuineness it is rejected for that same reason.
C7_RecordedIsReplay ==
    [][HandledKnown =>
         LET i == last'.ident
         IN  /\ (InSeq(Sha256(last'.payload), Recent(cache, i, now))
                   /\ CheckRateLimit(cache, i, now).ok)
                   => (~last'.live /\ last'.reason = R_REPLAY
                       /\ last'.stage = "uniqueness")
             /\ (last'.again /\ last.stage \in {"decode", "quality", "genuineness"})
                   => (~last'.live /\ last'.reason = last.reason)]_vars

\* The second of two identical requests was turned away as a replay.
C7_Witness ==
    last.again /\ ~last.live /\ last.reason = R_REPLAY /\ last.payload > NumBad

(* ------------------------------------------------------------------ *)
(* C8                                                                  *)
(* ------------------------------------------------------------------ *)
\* C8 as claimed: an attempt made less than the floor after another attempt for
\* the same identity (here: in the same second) is rejected, whatever became of
\* the first.
C8_SecondTooSoon ==
    [][(HandledKnown /\ last # NoRequest /\ last.ident = last'.ident) => ~last'.live]_vars

\* C8 as amended: an attempt made less than the floor after an attempt for the
\* same identity that passed the replay and timing checks (which is what
\* records the time) is rejected, also with another payload.
C8_TooSoonAfterRecorded ==
    [][HandledKnown =>
         LET i == last'.ident
         IN  (LastTime(cache, i, now) # 0
                /\ now - LastTime(cache, i, now) < MIN_TIME_BETWEEN_ATTEMPTS)
                => ~last'.live]_vars

\* A fresh payload met the timing floor one second after a recorded attempt.
C8_Witness ==
    /\ last.reason = R_TOO_FAST /\ last.stage = "uniqueness" /\ ~last.live
    /\ now - LastTime(cache, last.ident, now) = 1

(* ------------------------------------------------------------------ *)
(* C9                                                                  *)
(* ------------------------------------------------------------------ *)
\* C9: the recent-hash list of an identity never holds more than ten digests;
\* a call that passes the replay check appends its digest and, when ten are
\* held already, drops the oldest; any other call leaves the list alone; and a
\* capture whose digest is in the list is rejected.
C9_BoundedOldestFirst ==
    [][\A i \in Idents :
         LET old == Recent(cache, i, now)
             new == Recent(cache', i, now')
             h == Sha256(last'.payload)
         IN  /\ Len(new) <= RECENT_KEEP
             /\ (HandledKnown /\ last'.ident = i) =>
                  /\ InSeq(h, old) => ~last'.live
                  /\ IF last'.stage \in {"passed", "frontend", "exception"}
                     THEN new = IF Len(old) < RECENT_KEEP THEN Append(old, h)
                                ELSE Append(Tail(old), h)
                     ELSE new = old]_vars

\* The list is full and the first capture recorded has been dropped from it.
C9_Witness ==
    /\ Len(Recent(cache, "alice", now)) = RECENT_KEEP
    /\ ~InSeq(Sha256(NumBad + 1), Recent(cache, "alice", now))
    /\ Recent(cache, "alice", now)[1] = Sha256(NumBad + 2)
    /\ last.live

(* ------------------------------------------------------------------ *)
(* C10                                                                 *)
(* ------------------------------------------------------------------ *)
\* C10: when verify_liveness returns success, the digest of the capture is in
\* the replay cache of the identity and its last-attempt time is the time of
\* the call.
C10_SuccessRecorded ==
    last.live =>
        /\ InSeq(Sha256(last.payload), Recent(cache, last.ident, now))
        /\ LastTime(cache, last.ident, now) = now

\* A capture sent with client hints passed the liveness screen.
C10_Witness ==
    /\ last.live /\ last.reason = R_OK
    /\ Len(Recent(cache, last.ident, now)) = 2

(* ------------------------------------------------------------------ *)
(* C11                                                                 *)
(* ------------------------------------------------------------------ *)
\* C11: verify_user_face classifies the score of a compared pair with two
\* inclusive lower bounds: at 0.80 and above SUCCESS with success true, from
\* 0.65 up to but not including 0.80 LOW_QUALITY with success false, below 0.65
\* FAILED with success false.
C11_TwoInclusiveBounds ==
    (last.ran /\ last.compared) =>
        /\ last.match_score >= HIGH_MATCH_THRESHOLD
              => (last.status = "SUCCESS" /\ last.success)
        /\ (last.match_score >= MIN_MATCH_THRESHOLD
              /\ last.match_score < HIGH_MATCH_THRESHOLD)
              => (last.status = "LOW_QUALITY" /\ ~last.success)
        /\ last.match_score < MIN_MATCH_THRESHOLD
              => (last.status = "FAILED" /\ ~last.success)

\* A pair scoring exactly 0.80 was classified SUCCESS.
C11_Witness ==
    /\ last.ran /\ last.compared /\ last.match_score = HIGH_MATCH_THRESHOLD
    /\ last.status = "SUCCESS" /\ last.success /\ last.tokens

(* ------------------------------------------------------------------ *)
(* C12                                                                 *)
(* ------------------------------------------------------------------ *)
\* C12: no face-login endpoint reports success or issues tokens for a compared
\* pair scoring below 0.80.
C12_NoSuccessBelowHigh ==
    (last.compared /\ last.match_score < HIGH_MATCH_THRESHOLD)
        => (~last.success /\ ~last.tokens /\ last.http # 200)

(* ------------------------------------------------------------------ *)
(* C13                                                                 *)
(* ------------------------------------------------------------------ *)
\* C13: on every login path the capture is encoded and compared, and tokens are
\* issued, only after verify_liveness has accepted that capture in the same
\* request.
C13_LivenessBeforeComparison ==
    (last.encoded > 0 \/ last.compared \/ last.tokens) => last.live

(* ------------------------------------------------------------------ *)
(* C14                                                                 *)
(* ------------------------------------------------------------------ *)
\* C14: verify_liveness runs its checks in the order lockout, decode, quality
\* bounds, entropy, genuineness, replay hash, timing floor, client hints, and
\* the reason it returns is that of the first check in this order that fails;
\* the hints are looked at only when every check before them has passed, so no
\* hints let a capture through that fails one of them.
C14_FirstFailingCheck ==
    [][HandledKnown =>
         LET i == last'.ident
             h == last'.hints
             image == DecodeImage(last'.payload)
             locked == LockedOut(cache, i, now)
                         \/ Attempts(cache, i, now) >= MAX_FAILED_ATTEMPTS
             undecoded == ~image.decodes
             out_of_bounds ==
                 \/ image.w < MIN_IMAGE_SIZE \/ image.h < MIN_IMAGE_SIZE
                 \/ image.w > MAX_IMAGE_SIZE \/ image.h > MAX_IMAGE_SIZE
                 \/ 2 * image.w < image.h \/ image.w > 2 * image.h
             flat == image.entropy < MIN_IMAGE_ENTROPY
             fake == image.border < BORDER_STD_FLOOR \/ image.noise < NOISE_FLOOR
             replayed == InSeq(Sha256(last'.payload), Recent(cache, i, now))
             too_fast == now - LastTime(cache, i, now) < MIN_TIME_BETWEEN_ATTEMPTS
             bad_hints ==
                 \/ h.kind = "other"
                 \/ /\ h.kind = "dict"
                    /\ \/ ~(h.blinkDetected \/ h.headMovement \/ h.expressionChange)
                       \/ h.confidence < MIN_CONFIDENCE
                       \/ ~h.faceQuality
                       \/ h.multipleFaces
             reason == last'.reason
         IN  CASE locked -> ~last'.live /\ reason = R_LOCKOUT
               [] undecoded -> ~last'.live /\ reason = R_FORMAT
               [] out_of_bounds -> ~last'.live /\ reason \in {R_SMALL, R_LARGE, R_RATIO}
               [] flat -> ~last'.live /\ reason = R_ENTROPY
               [] fake -> ~last'.live /\ reason \in {R_BORDER, R_NOISE}
               [] replayed -> ~last'.live /\ reason = R_REPLAY
               [] too_fast -> ~last'.live /\ reason = R_TOO_FAST
               [] bad_hints ->
                     ~last'.live
                     /\ reason \in {R_NO_MOVE, R_CONFIDENCE, R_FACE_QUALITY, R_MULTI, R_ERROR}
               [] OTHER -> last'.live /\ reason = R_OK]_vars

\* A capture that is too small, flat and without borders or noise came with
\* hints that would be rejected too: it was turned away for its size.
C14_Witness ==
    /\ last.payload = 2 /\ last.hints.kind = "dict" /\ last.hints.multipleFaces
    /\ ~last.live /\ last.reason = R_SMALL /\ last.stage = "quality"

(* ------------------------------------------------------------------ *)
(* C15                                                                 *)
(* ------------------------------------------------------------------ *)
\* C15 as claimed: when client hints are supplied, verify_liveness accepts them
\* only if one of blink, head movement and expression change is set, the
\* confidence is above 0.5, the face-quality flag is set and the multiple-faces
\* flag is not.
C15_HintsAboveHalf ==
    (last.live /\ last.hints.kind # "none") =>
        /\ last.hints.blinkDetected \/ last.hints.headMovement
              \/ last.hints.expressionChange
        /\ last.hints.confidence > MIN_CONFIDENCE
        /\ last.hints.faceQuality
        /\ ~last.hints.multipleFaces

\* C15 as amended: when client hints are supplied and are not empty (an empty
\* hints object counts as none), verify_liveness accepts them only if one of
\* blink, head movement and expression change is set, the confidence is at
\* least 0.5, the face-quality flag is set and the multiple-faces flag is not;
\* hints that fail one of the four, or are no hints object, are rejected.
C15_HintsAtLeastHalf ==
    (last.endpoint = "face" /\ last.stage \in {"passed", "frontend", "exception"}
       /\ last.hints.kind \notin {"none", "empty"}) =>
        (last.live <=>
            /\ last.hints.kind = "dict"
            /\ last.hints.blinkDetected \/ last.hints.headMovement
                  \/ last.hints.expressionChange
            /\ last.hints.confidence >= MIN_CONFIDENCE
            /\ last.hints.faceQuality
            /\ ~last.hints.multipleFaces)

\* Hints with a confidence of exactly 0.5 were accepted.
C15_Witness ==
    /\ last.live /\ last.hints.kind = "dict" /\ last.hints.confidence = MIN_CONFIDENCE
    /\ last.hints.faceQuality /\ ~last.hints.multipleFaces

(* ------------------------------------------------------------------ *)
(* C16                                                                 *)
(* ------------------------------------------------------------------ *)
\* C16: when the locator finds no face in the reference photo, or none in the
\* capture, verify_user_face returns NO_FACE with success false and score 0.0,
\* and compare_faces is not run.
C16_NoFaceNotCompared ==
    (last.ran /\ last.store
       /\ \/ photo[TheUser(last.ident)] = "noface"
          \/ photo[TheUser(last.ident)] = "face" /\ last.cap \in {"noface", "crash"}) =>
        /\ last.status = "NO_FACE" /\ ~last.success /\ ~last.tokens
        /\ last.match_score = 0
        /\ ~last.compared

\* A capture without a face met a reference photo with one.
C16_Witness ==
    /\ last.ran /\ last.cap = "noface" /\ photo[TheUser(last.ident)] = "face"
    /\ last.status = "NO_FACE" /\ last.encoded = 2 /\ ~last.compared

(* ------------------------------------------------------------------ *)
(* C17                                                                 *)
(* ------------------------------------------------------------------ *)
\* C17: when no reference photo is stored for the user, the status that
\* verify_user_face returns is not the one it returns for a score below 0.65.
C17_MissingReferenceDistinct ==
    (last.ran /\ last.store /\ photo[TheUser(last.ident)] = "none")
        => last.status # Classify(MIN_MATCH_THRESHOLD - 1)

(* ------------------------------------------------------------------ *)
(* C18                                                                 *)
(* ------------------------------------------------------------------ *)
\* C18: verify_liveness and verify_user_face never raise to their caller: with
\* the cache down, the store down, a capture or reference that does not decode,
\* a failing locator or scorer, or a failing audit insert, the call ends in a
\* returned (False, reason) or a structured result with success false, and a
\* failing audit insert leaves the returned decision as it is.
C18_NothingPropagates ==
    /\ ~last.raised
    /\ (last.endpoint = "face" /\ last.stage = "exception")
          => (~last.live /\ last.reason = R_ERROR /\ ~last.ran)
    /\ last.ran =>
          /\ last.status \in AuthStatus
          /\ last.success <=> last.status = "SUCCESS"
          /\ (\/ ~last.store
              \/ photo[TheUser(last.ident)] = "corrupt"
              \/ photo[TheUser(last.ident)] = "face" /\ last.cap = "corrupt")
                => (last.status = "FAILED" /\ ~last.success /\ ~last.compared)
    /\ \A u \in Users, env \in FaceCalls :
          LET kept == VerifyUserFace(auditLog, u, photo[u], [env EXCEPT !.db = TRUE])
              lost == VerifyUserFace(auditLog, u, photo[u], [env EXCEPT !.db = FALSE])
          IN  /\ ~lost.raised /\ lost.log = auditLog
              /\ lost.success = kept.success /\ lost.status = kept.status
              /\ lost.match_score = kept.match_score /\ lost.message = kept.message

\* The audit insert failed on a matching pair: the call returned SUCCESS.
C18_Witness ==
    /\ last.ran /\ ~last.stored /\ ~last.raised
    /\ last.status = "SUCCESS" /\ last.success /\ last.tokens /\ last.http = 200

(* ------------------------------------------------------------------ *)
(* C19                                                                 *)
(* ------------------------------------------------------------------ *)
\* C19: under concurrent verify_liveness calls for one identity the replay
\* check reads, tests and appends as one atomic step: two calls in progress
\* together that carry the same payload never both pass, and the digest of
\* every call that passed is in the identity's list (no append is lost).
C19_AtomicReplayCheck ==
    /\ \A v \in Workers, w \in Workers :
          (v # w /\ calls[v].pc = "done" /\ calls[w].pc = "done"
             /\ calls[v].payload = calls[w].payload)
            => ~(calls[v].passed /\ calls[w].passed)
    /\ \A w \in Workers :
          (calls[w].pc = "done" /\ calls[w].passed)
            => InSeq(Sha256(calls[w].payload), Recent(cache, "alice", now))

(* ------------------------------------------------------------------ *)
(* C20                                                                 *)
(* ------------------------------------------------------------------ *)
\* C20: when the DeepFace call inside compare_faces fails, the failure ends the
\* call: no other method is run after it and the verification is FAILED.
C20_DeepFailureTerminal ==
    (last.compared /\ last.deep_failed) =>
        /\ ~last.fallback
        /\ ~last.success /\ ~last.tokens
        /\ last.ran => last.status = "FAILED"

(* ------------------------------------------------------------------ *)
(* C21                                                                 *)
(* ------------------------------------------------------------------ *)
\* C21: compare_faces returns a score between 0 and 1 on every method path,
\* given a structural similarity in [-1,1], keypoint and histogram scores in
\* [0,1] and a distance that is not negative.
C21_ScoreInUnitInterval ==
    last.compared => (last.match_score >= 0 /\ last.match_score <= 100)

C29_SuccessIffStatus ==
    last.ran =>
        /\ last.success <=> last.status = "SUCCESS"
        /\ last.status \in {"SUCCESS", "LOW_QUALITY", "FAILED", "NO_FACE"}

\* A partial match was returned as LOW_QUALITY with success false.
C29_Witness ==
    /\ last.ran /\ last.status = "LOW_QUALITY" /\ ~last.success
    /\ last.match_score >= MIN_MATCH_THRESHOLD

(* ------------------------------------------------------------------ *)
(* C26                                                                 *)
(* ------------------------------------------------------------------ *)
\* C26: a verify_liveness call that returns a rejection, at whichever check,
\* leaves the identity's recent digests and last-attempt time as they were
\* before the call.
C26_RejectionKeepsReplayState ==
    [][(HandledKnown /\ last'.endpoint = "face" /\ ~last'.live) =>
          /\ cache'.recent[last'.ident] = cache.recent[last'.ident]
          /\ cache'.last_time[last'.ident] = cache.last_time[last'.ident]]_vars

(* ------------------------------------------------------------------ *)
(* C28                                                                 *)
(* ------------------------------------------------------------------ *)
\* C28: a lockout ends by itself.  The rate-limit check that finds the failure
\* counter at five or more sets the lockout flag with a 15-minute expiry and
\* clears the counter in the same call (which is turned away); a request that
\* comes in when the flag's expiry has passed gets past the rate-limit check,
\* with a failure count of zero.
C28_LockoutEndsByItself ==
    [][(HandledKnown /\ last'.endpoint = "face") =>
         LET i == last'.ident
         IN  /\ (~LockedOut(cache, i, now) /\ Attempts(cache, i, now) >= MAX_FAILED_ATTEMPTS)
                   => /\ cache'.lockout[i] = [val |-> TRUE, exp |-> now + LOCKOUT_DURATION]
                      /\ LockedOut(cache', i, now)
                      /\ Attempts(cache', i, now) = 0
                      /\ cache'.attempts[i] = NoCount
                      /\ ~last'.live /\ last'.reason = R_LOCKOUT
             /\ (cache.lockout[i].val /\ now >= cache.lockout[i].exp)
                   => /\ last'.stage # "rate_limit" /\ last'.reason # R_LOCKOUT
                      /\ last'.counted = 0
                      /\ ~LockedOut(cache', i, now)]_vars

\* A lockout that the rate-limit check set during the run (one second after the
\* start) has run out, and a sound capture of the identity passed liveness.
C28_Witness ==
    /\ cache.lockout["alice"] = [val |-> TRUE, exp |-> StartTime + 1 + LOCKOUT_DURATION]
    /\ now >= cache.lockout["alice"].exp
    /\ last.endpoint = "face" /\ last.ident = "alice"
    /\ last.live /\ last.counted = 0

(* ------------------------------------------------------------------ *)
(* C23                                                                 *)
(* ------------------------------------------------------------------ *)
\* C23: reset_user_lockout for one identity (the only step that neither moves
\* the clock nor answers a request) clears the lockout flag and the failure
\* counter of that identity, so that the rate-limit check of its next attempt
\* passes, and leaves alone the four keys of every other identity and the recent
\* digests and last-attempt time of the identity itself.
C23_ResetFrame ==
    [][(now' = now /\ last' = NoRequest) =>
         \E i \in Idents :
            /\ cache'.lockout[i] = NoFlag /\ cache'.attempts[i] = NoCount
            /\ CheckRateLimit(cache', i, now').ok
            /\ cache'.recent[i] = cache.recent[i]
            /\ cache'.last_time[i] = cache.last_time[i]
            /\ \A j \in Idents \ {i} :
                  /\ cache'.lockout[j] = cache.lockout[j]
                  /\ cache'.attempts[j] = cache.attempts[j]
                  /\ cache'.recent[j] = cache.recent[j]
                  /\ cache'.last_time[j] = cache.last_time[j]]_vars

\* alice, locked out at the start, was reset and got a capture past the
\* rate-limit check and onto her list; another reset then came (the clock has
\* not moved and no request is the latest step) and her list is still there,
\* while bob is still locked out with his counter at two.
C23_Witness ==
    /\ now = StartTime /\ last = NoRequest
    /\ cache.lockout["alice"] = NoFlag
    /\ Len(Recent(cache, "alice", now)) = 1
    /\ LastTime(cache, "alice", now) = StartTime
    /\ LockedOut(cache, "bob", now) /\ Attempts(cache, "bob", now) = 2
    /\ Recent(cache, "bob", now) = <<>>

(* ------------------------------------------------------------------ *)
(* C27                                                                 *)
(* ------------------------------------------------------------------ *)
\* C27: an attempt for a user is subject to the lockout, the recent digests and
\* the timing floor kept under every identifier of that user: it is turned away
\* for lockout when one of them is locked out, and does not pass liveness when
\* its digest is on the list of one of them or is too soon after the last
\* attempt under one of them.
C27_SharedAcrossIdentifiers ==
    [][(HandledKnown /\ last'.endpoint = "face") =>
         \A j \in Idents :
            FindUser(j) = FindUser(last'.ident) =>
               /\ LockedOut(cache, j, now) => (~last'.live /\ last'.reason = R_LOCKOUT)
               /\ InSeq(Sha256(last'.payload), Recent(cache, j, now)) => ~last'.live
               /\ (cache.last_time[j] # NoTime
                   /\ now - LastTime(cache, j, now) < MIN_TIME_BETWEEN_ATTEMPTS)
                     => ~last'.live]_vars

(* ------------------------------------------------------------------ *)
(* C24                                                                 *)
(* ------------------------------------------------------------------ *)
\* C24: in base64_to_image the text left after the prefix, the whitespace and
\* the characters outside the alphabet are removed holds alphabet characters
\* only, and the padding repair turns it into a text whose length is divisible
\* by 4: a remainder of 1 drops the last character, 2 appends "==", 3 appends
\* "=", and with remainder 0 the text is left as it is.
C24_PaddingRepair ==
    codec.face.ran =>
        LET c == codec.face.cleaned
            r == codec.face.repaired
        IN  /\ \A k \in 1..Len(c) : c[k] \in Alphabet
            /\ Len(r) % 4 = 0
            /\ Len(c) % 4 = 0 => r = c
            /\ Len(c) % 4 = 1 => (Len(r) = Len(c) - 1 /\ r = SubSeq(c, 1, Len(c) - 1))
            /\ Len(c) % 4 = 2 => (Len(r) = Len(c) + 2 /\ r = c \o <<"=", "=">>)
            /\ Len(c) % 4 = 3 => (Len(r) = Len(c) + 1 /\ r = c \o <<"=">>)
            /\ B64Decode(r).ok

\* A payload with the prefix and five alphabet characters: the fifth is
\* dropped and the four left decode to an image.
C24_Witness ==
    /\ codec.face.ran /\ codec.payload.url
    /\ Len(codec.face.cleaned) = 5 /\ Len(codec.face.repaired) = 4
    /\ codec.face.ok

(* ------------------------------------------------------------------ *)
(* C25                                                                 *)
(* ------------------------------------------------------------------ *)
\* C25: the two decoders agree on every payload: what base64_to_image accepts
\* _decode_image decodes too, and what base64_to_image rejects _decode_image
\* rejects.
C25_DecodersAgree ==
    (codec.face.ran /\ codec.guard.ran) => (codec.face.ok <=> codec.guard.ok)

(* ------------------------------------------------------------------ *)
(* C30                                                                 *)
(* ------------------------------------------------------------------ *)
\* C30: a WebAuthn challenge is consumed at most once: of all the finish
\* requests that present one challenge, one after the other or at the same
\* time, at most one is answered 200.
C30_ChallengeConsumedOnce ==
    \A ch \in ChallengeIds : webauthn.accepted[ch] <= 1

============================================================================
